---- MODULE Spec2Model ----
(***************************************************************************)
(* Request dispatch engine (Api: use / unuse / listener / _match) and the  *)
(* controller load pipeline (Controller: process / loadData /               *)
(* loadEventData / processChained) of DADI Web.                             *)
(***************************************************************************)
EXTENDS Integers, Sequences, FiniteSets, TLC

(* ------------------------------------------------------------------ *)
(* Bounds                                                               *)
(* ------------------------------------------------------------------ *)

\* number of use() calls made over a run
MaxReg == 3

\* res.end calls counted per request (counting saturates here)
MaxEnds == 3

\* requests a handler made by a verb method is called for
MaxRequests == 2

(* ------------------------------------------------------------------ *)
(* Route patterns and request paths                                     *)
(* ------------------------------------------------------------------ *)

\* a pattern is a sequence of segments: static text, :name or :name?
S(n) == [kind |-> "s", name |-> n]
R(n) == [kind |-> "r", name |-> n]
O(n) == [kind |-> "o", name |-> n]

Patterns ==
  { <<S("404")>>,
    <<S("a")>>,
    <<S("a"), R("x")>>,
    <<R("x"), O("y")>>,
    <<S("a"), S("config")>> }

ReqPaths == { <<>>, <<"a">>, <<"a", "b">> }

\* the handler given to the k-th use() call, a function of its own
routeHandler(k) == k

\* the handler of a page route, which hands the request to its controller
CtlHandler == 0
Middlewares   == {"m1", "m2"}
ErrHandlers   == {"eh1"}

\* the handler created by defaultError() and the one created by notFound()
DefaultError == "defaultError"
NotFound     == "notFound"

\* the error objects a handler may pass on: statusCode 0 stands for undefined
NoErr == [statusCode |-> -1, json |-> FALSE]
Errs  == { [statusCode |-> 0,   json |-> FALSE],
           [statusCode |-> 404, json |-> TRUE] }

\* Function.length of a handler passed to use()/unuse()
arity(fn) == IF fn \in ErrHandlers THEN 4 ELSE 3

(* ------------------------------------------------------------------ *)
(* Scoring and sorting (Api.prototype.use)                              *)
(* ------------------------------------------------------------------ *)

RECURSIVE staticRouteLength(_)
\* segments of tokens[0], the static text before the first parameter
staticRouteLength(p) ==
  IF p = <<>> \/ Head(p).kind # "s" THEN 0
  ELSE 1 + staticRouteLength(Tail(p))

requiredParamLength(p) == Cardinality({i \in DOMAIN p : p[i].kind = "r"})

optionalParamLength(p) == Cardinality({i \in DOMAIN p : p[i].kind = "o"})

\* path.indexOf('/config') > 0
hasConfig(p) == \E i \in DOMAIN p : i > 1 /\ p[i].kind = "s" /\ p[i].name = "config"

order(p) ==
  IF hasConfig(p) THEN -10
  ELSE (staticRouteLength(p) * 5) + (requiredParamLength(p) * 2) + optionalParamLength(p)

\* the comparator with its operands exchanged (ascending order)
compareAsc(a, b) == a.order - b.order

\* comparator of this.paths.sort: negative keeps a before b
compare(a, b) == b.order - a.order

RECURSIVE insertSorted(_, _)
\* e goes behind every entry the comparator does not put after it
insertSorted(s, e) ==
  IF s = <<>> THEN <<e>>
  ELSE IF compare(Head(s), e) <= 0 THEN <<Head(s)>> \o insertSorted(Tail(s), e)
       ELSE <<e>> \o s

RECURSIVE sortPaths(_)
\* Array.prototype.sort with the comparator above (stable)
sortPaths(s) ==
  IF s = <<>> THEN <<>>
  ELSE insertSorted(sortPaths(SubSeq(s, 1, Len(s) - 1)), s[Len(s)])

\* least element of a non-empty set of indices
least(I) == CHOOSE i \in I : \A j \in I : i <= j

\* _.findWhere(paths, {path: p}): index of the first entry with that path, 0 when none
findWhere(ps, p) ==
  LET I == {i \in DOMAIN ps : ps[i].path = p} IN IF I = {} THEN 0 ELSE least(I)

\* list.indexOf(fn) on a list of functions, 0 when absent
indexOf(s, fn) ==
  LET I == {i \in DOMAIN s : s[i] = fn} IN IF I = {} THEN 0 ELSE least(I)

removeAt(s, i) ==
  IF i = 0 THEN s ELSE SubSeq(s, 1, i - 1) \o SubSeq(s, i + 1, Len(s))

(* ------------------------------------------------------------------ *)
(* Matching (Api.prototype._match)                                      *)
(* ------------------------------------------------------------------ *)

NoMatch == [ok |-> FALSE, params |-> <<>>]

RECURSIVE exec(_, _)
\* regex.exec(path): the named captures of the pattern on the path
exec(pat, path) ==
  IF pat = <<>> THEN [ok |-> path = <<>>, params |-> <<>>]
  ELSE LET h == Head(pat)
           consume == IF path = <<>> THEN NoMatch
                      ELSE LET r == exec(Tail(pat), Tail(path))
                           IN IF r.ok
                              THEN [ok |-> TRUE,
                                    params |-> r.params @@ (h.name :> Head(path))]
                              ELSE NoMatch
       IN CASE h.kind = "s" ->
                 IF path # <<>> /\ Head(path) = h.name
                 THEN exec(Tail(pat), Tail(path)) ELSE NoMatch
            [] h.kind = "r" -> consume
            [] h.kind = "o" ->
                 IF consume.ok THEN consume ELSE exec(Tail(pat), path)

\* indices of the routes whose regex matches the path
matching(paths, path) == {i \in DOMAIN paths : exec(paths[i].path, path).ok}

\* the scan without its break: every matching route contributes a handler
matchAll(paths, path) ==
  LET m == matching(paths, path)
      RECURSIVE collect(_)
      collect(i) == IF i > Len(paths) THEN <<>>
                    ELSE (IF i \in m THEN <<paths[i].handler>> ELSE <<>>) \o collect(i + 1)
  IN [handlers |-> collect(1),
      params |-> IF m = {} THEN <<>>
                 ELSE exec(paths[CHOOSE i \in m : \A j \in m : i <= j].path, path).params]

\* handlers of the first matching route and the params it captured
match(paths, path) ==
  LET m == matching(paths, path)
  IN IF m = {} THEN [handlers |-> <<>>, params |-> <<>>]
     ELSE LET i == CHOOSE k \in m : \A j \in m : k <= j
          IN [handlers |-> <<paths[i].handler>>,
              params |-> exec(paths[i].path, path).params]

(* ------------------------------------------------------------------ *)
(* State                                                                *)
(* ------------------------------------------------------------------ *)

VARIABLES
  paths,    \* Api.paths: routed entries, [path, order, handler, seq]
  all,      \* Api.all: global middleware, [fn, seq]
  errors,   \* Api.errors: error handlers
  regSeq,   \* number of use() calls so far; seq stamps an entry with its call
  req,      \* the request in flight, see idleReq
  page,     \* the page of the controller: datasources, required keys, events
  ctl,      \* the controller's pipeline for the request in flight, see idleCtl
  datasources,  \* Controller.datasources: the Datasource objects made at load
  cars,     \* the Datasource object of key 'cars' with concrete filters, see CarsObjects
  dsCache,  \* the DatasourceCache singleton, see newCache
  components,  \* Server.components: the component kept for a route path, 0 for none
  verb      \* a handler made by a verb method and the requests it serves, see idleVerb

\* the state of the server beside the router and the controller
server == <<dsCache, components, verb>>

vars == <<paths, all, errors, regSeq, req, page, ctl, datasources, cars, server>>

\* a request: the chain built by listener, the closure counters of doStack
\* and errStack, the handler that still holds a continuation, the response,
\* the '/404' handler the terminal called (-1 when none)
idleReq ==
  [ url        |-> <<>>,
    stack      |-> <<>>,
    params     |-> <<>>,
    snapshot   |-> <<>>,
    pending    |-> "none",
    nextI      |-> 0,
    errI       |-> 0,
    started    |-> <<>>,
    errLog     |-> <<>>,
    ends       |-> 0,
    statusCode |-> 200,
    body       |-> "",
    served     |-> -1,
    crashed    |-> FALSE ]

Min(a, b) == IF a < b THEN a ELSE b

\* res.end(body)
end(r, body) == [r EXCEPT !.ends = Min(@ + 1, MaxEnds), !.body = body, !.pending = "none"]

\* a TypeError escapes: undefined is not a function
throw(r) == [r EXCEPT !.crashed = TRUE, !.pending = "none"]

(* ------------------------------------------------------------------ *)
(* Built-in handlers                                                    *)
(* ------------------------------------------------------------------ *)

\* the handler that answers every error with status 500
defaultErrorAlways500(r, err) ==
  end([r EXCEPT !.statusCode = 500], IF err.json THEN "json" ELSE "")

\* function (err, req, res): status from the error or 500, json body if any
defaultError(r, err) ==
  end([r EXCEPT !.statusCode = IF err.statusCode > 0 THEN err.statusCode ELSE 500],
      IF err.json THEN "json" ELSE "")

\* the terminal that never looks for a '/404' route
notFoundPlain(r, ps) ==
  end([r EXCEPT !.statusCode = 404], "404: Ain't nothing here but you and me.")

\* the 404 terminal: the '/404' route's handler (called without next) or text
notFound(r, ps) ==
  LET r1 == [r EXCEPT !.statusCode = 404]
      i  == findWhere(ps, <<S("404")>>)
  IN IF i # 0 THEN [r1 EXCEPT !.pending = "h404", !.served = ps[i].handler]
     ELSE end(r1, "404: Ain't nothing here but you and me.")

(* ------------------------------------------------------------------ *)
(* Continuations of listener                                            *)
(* ------------------------------------------------------------------ *)

\* errStack(i)(err): self.errors[i](err, req, res, errStack(++i))
errStack(r, err, errs) ==
  LET i == r.errI
  IN IF i + 1 > Len(errs) THEN throw(r)
     ELSE LET h  == errs[i + 1]
              r1 == [r EXCEPT !.errI = i + 1,
                              !.errLog = Append(@, [handler |-> h, err |-> err])]
          IN IF h = DefaultError THEN defaultError(r1, err)
             ELSE [r1 EXCEPT !.pending = "err"]

\* stack[i](req, res, doStack(++i))
callStack(r, ps) ==
  LET i == r.nextI
  IN IF i + 1 > Len(r.stack) THEN throw(r)
     ELSE LET h  == r.stack[i + 1]
              r1 == [r EXCEPT !.nextI = i + 1, !.started = Append(@, i + 1)]
          IN CASE h.kind = "nf"  -> notFound(r1, ps)
               [] h.kind = "route" /\ h.fn = CtlHandler
                         -> [r1 EXCEPT !.pending = "ctl"]
               [] OTHER          -> [r1 EXCEPT !.pending = "stage"]

\* the continuation that keeps to the normal chain whatever it is given
doStackNoShortCircuit(r, err, ps, errs) == callStack(r, ps)

\* doStack(i)(err): an error goes to errStack(0), else stack[i] is called
doStack(r, err, ps, errs) ==
  IF err # NoErr THEN errStack([r EXCEPT !.errI = 0], err, errs)
  ELSE callStack(r, ps)

stage(k, fn) == [kind |-> k, fn |-> fn]

\* the chain with the route handler ahead of the global middleware
buildStackRouteFirst(mws, handlers) ==
  [i \in DOMAIN handlers |-> stage("route", handlers[i])]
    \o [i \in DOMAIN mws |-> stage("mw", mws[i].fn)]
    \o <<stage("nf", NotFound)>>

\* stack = this.all.slice(0).concat(matches), then push(notFound(...))
buildStack(mws, handlers) ==
  [i \in DOMAIN mws |-> stage("mw", mws[i].fn)]
    \o [i \in DOMAIN handlers |-> stage("route", handlers[i])]
    \o <<stage("nf", NotFound)>>

(* ------------------------------------------------------------------ *)
(* Pages and the controller's state                                     *)
(* ------------------------------------------------------------------ *)

DsKeys == {"A", "B", "C", "X", "Y"}

\* ds.name, the name the page lists the datasource under
nameOf(key) == [A |-> "articles", B |-> "books", C |-> "cars",
                X |-> "extras", Y |-> "years"][key]

\* a datasource of a page: schema key, name, chained.datasource ("" when not
\* chained), the filterEvent configured: "" for none, one that calls back
\* before it returns, one that calls back later
DS(key, parent, fe) ==
  [key |-> key, name |-> nameOf(key), chained |-> parent, filterEvent |-> fe]

DsLists ==
  { <<>>,
    <<DS("A", "", ""), DS("B", "", "later"), DS("C", "", "atOnce")>>,
    <<DS("A", "", ""), DS("X", "A", ""), DS("Y", "A", "")>>,
    <<DS("A", "", ""), DS("X", "A", ""), DS("Y", "C", "")>>,
    <<DS("X", "A", "")>> }

\* page.datasources, page.requiredDatasources, page.preloadEvents,
\* page.events, page.passFilters, and the globalEvents of the configuration
\* the controller was made under
AllPages ==
  [ datasources         : DsLists,
    requiredDatasources : {{}, {"A"}},
    globalEvents        : {<<>>, <<"g">>},
    preloadEvents       : {<<>>, <<"p">>},
    events              : {<<>>, <<"e">>},
    passFilters         : BOOLEAN ]

\* the pages of the pipeline runs: a global event and a page preload event,
\* or neither
Pages == {pg \in AllPages : (pg.globalEvents = <<>>) = (pg.preloadEvents = <<>>)}

\* the pages of the event runs: no datasource attached
EventPages == {pg \in AllPages : pg.datasources = <<>>}

emptyPage ==
  [ datasources |-> <<>>, requiredDatasources |-> {}, globalEvents |-> <<>>,
    preloadEvents |-> <<>>, events |-> <<>>, passFilters |-> FALSE ]

\* the list that runs the page's preload events before the global events
attachEventsPageFirst(pg) == pg.preloadEvents \o pg.globalEvents

\* this.preloadEvents after attachEvents: the global events first, then the
\* page's preload events (this.events is page.events)
attachEvents(pg) == pg.globalEvents \o pg.preloadEvents

\* what an event hands to its callback as result: nothing, an object of its
\* own, the data object it was given, another object that carries the
\* sentinel of the call
EventResults == {"none", "keyed", "same", "copy"}

\* the query string of a request, as far as the datasources read it:
\* nothing, cache=false, filter={...}
Queries == {"", "cache", "filter"}

\* a Datasource object after init: the copy of the filter kept as
\* originalFilter, the datasource block of its schema, schema.datasource.source
\* and the requestParams list (one entry, without target)
loaded ==
  [k \in DsKeys |->
     [ originalFilter |-> "orig",
       schema         |-> [filter |-> [own |-> "orig", field |-> "unset"],
                           cache |-> "orig",
                           filterEventResult |-> "unset"],
       source         |-> "orig",
       requestParams  |-> "orig" ]]

\* datasources not flagged chained, and those flagged, in attachment order
primaryDatasources(pg) == SelectSeq(pg.datasources, LAMBDA d : d.chained = "")

chainedDatasources(pg) == SelectSeq(pg.datasources, LAMBDA d : d.chained # "")

\* a queue one worker wider
concurrencyTwo == 1 + 1

\* width of the async.queue of primary datasources
concurrency == 1

\* what a provider hands to the load callback as result: nothing, an
\* object without results, one with an empty results list, one whose first
\* result has the fields asked of it
Results == {"none", "plain", "empty", "full"}

\* the pipeline of one request: position in the waterfall, the working data
\* set (per key: absent, without results, with results), the running event,
\* the events run so far with the object each was given (loadData's data or
\* the result that replaced it), the object the data parameter of the
\* running loadEventData call refers to, the event names stored in either
\* object, the number of events run when a result replaced the data, the
\* object the final callback handed on, the filter events that have not
\* called back, the filterEventResult that went into the filter each
\* provider was handed, the datasources that hold a provider,
\* the queue and its workers, fetches in flight, and what has happened so far;
\* of the chained stage: the datasources the iteration examined, the messages
\* of the errors it made, the parameter each fetch was started with, the
\* fetch errors logged and the calls of the stage's continuation
idleCtl ==
  [ stage         |-> "idle",
    json          |-> FALSE,
    query         |-> "",
    gate          |-> "unset",
    data          |-> [k \in DsKeys |-> "none"],
    ev            |-> 0,
    evStarted     |-> <<>>,
    evLocal       |-> "data",
    evKeys        |-> [data |-> {}, result |-> {}],
    replacedAt    |-> 0,
    finalData     |-> "unset",
    preDone       |-> 0,
    postStarted   |-> 0,
    postDone      |-> 0,
    queue         |-> <<>>,
    workers       |-> {},
    inflight      |-> {},
    filterPending |-> {},
    handed        |-> [k \in DsKeys |-> "unstarted"],
    providers     |-> {},
    startedPrim   |-> <<>>,
    completedPrim |-> <<>>,
    chInflight    |-> {},
    chStarted     |-> {},
    chSeen        |-> {},
    chErrs        |-> <<>>,
    chParam       |-> [k \in DsKeys |-> "unset"],
    chCache       |-> [k \in DsKeys |-> "unset"],
    chFilter      |-> [k \in DsKeys |-> "unset"],
    chLogged      |-> {},
    chDone        |-> 0,
    idx           |-> 0,
    doneCalls     |-> 0,
    gatedEarly    |-> FALSE,
    renders       |-> 0,
    renderStarted |-> FALSE,
    primErr       |-> NoErr,
    doneErr       |-> NoErr,
    evLog         |-> {} ]

\* a filter maps each field to its value, "" for a field it does not have
Fields == {"make", "model", "color"}

filterOf(make, model, color) == [make |-> make, model |-> model, color |-> color]

\* the filter {}
NoFilter == filterOf("", "", "")

\* an entry of requestParams: param, field and queryParam ("" when not set)
RP(param, field, queryParam) ==
  [param |-> param, field |-> field, queryParam |-> queryParam]

\* the query string as processRequest reads it: page and filter
Query(pg, filter) == [page |-> pg, filter |-> filter]

\* nothing handed to a provider yet
NotHanded ==
  [ called |-> FALSE, params |-> <<>>, query |-> Query("", NoFilter),
    event |-> NoFilter, filter |-> NoFilter, page |-> "" ]

\* the Datasource object of key 'cars' after init, on a page named after it
\* or not, passing filters or not: paginated or not, the page its schema
\* names, its schema's filter and the copy kept as originalFilter, the
\* filterEventResult, requestParams with or without an entry that makes the
\* route param p the page; and the datasourceParams its provider was handed
\* last, with the params, the query and the filterEventResult of that call
CarsObjects ==
  { [ page           |-> pg,
      schema         |-> [paginate |-> pag, page |-> "schema", filter |-> f,
                          filterEventResult |-> NoFilter],
      originalFilter |-> f,
      requestParams  |-> <<RP("make", "make", ""), RP("model", "model", "")>> \o rp,
      handed         |-> NotHanded ] :
      pg  \in [name : {"cars", "home"}, passFilters : BOOLEAN],
      pag \in BOOLEAN,
      f   \in {NoFilter, filterOf("ford", "", "green")},
      rp  \in {<<>>, <<RP("p", "", "page")>>} }

\* no 'cars' datasource in use
idleCars ==
  [ page           |-> [name |-> "home", passFilters |-> FALSE],
    schema         |-> [paginate |-> FALSE, page |-> "schema", filter |-> NoFilter,
                        filterEventResult |-> NoFilter],
    originalFilter |-> NoFilter,
    requestParams  |-> <<>>,
    handed         |-> NotHanded ]

\* a store of a caching block: whether the block has it, its enabled
\* ("true", "false", "undef" when not set) and its path ("" when not set)
Store(has, enabled, path) == [has |-> has, enabled |-> enabled, path |-> path]

NoStore == Store(FALSE, "undef", "")

\* config.get('caching.directory.path')
ConfigPath == "cache"

\* config.get('caching') and config.get('debug')
CacheConfigs ==
  [ directory : {Store(TRUE, "true", ConfigPath), Store(TRUE, "false", ConfigPath)},
    redis     : {Store(TRUE, "true", ""), Store(TRUE, "false", "")},
    debug     : BOOLEAN ]

\* a datasource as the cache reads it: name, source.type, provider.endpoint
\* and whether its query says cache=false, provider.cacheKey ("" for none),
\* and the caching block of its schema
Source(name, type, endpoint, cacheFalse, cacheKey, directory, redis) ==
  [ name |-> name, type |-> type, endpoint |-> endpoint,
    cacheFalse |-> cacheFalse, cacheKey |-> cacheKey,
    caching |-> [directory |-> directory, redis |-> redis] ]

CacheSources ==
  { Source("cars",  "remote", "e1", FALSE, "",  NoStore, NoStore),
    Source("cars",  "remote", "e2", FALSE, "",  NoStore, NoStore),
    Source("books", "remote", "e1", FALSE, "",  NoStore, NoStore),
    Source("cars",  "remote", "e1", FALSE, "k", NoStore, NoStore),
    Source("cars",  "remote", "e2", FALSE, "k", NoStore, NoStore),
    Source("cars",  "remote", "e3", TRUE,  "",  NoStore, NoStore),
    Source("cars",  "static", "e1", FALSE, "",  NoStore, NoStore),
    Source("books", "remote", "e2", FALSE, "",
           Store(TRUE, "false", ConfigPath), Store(TRUE, "false", "")),
    Source("books", "remote", "e3", FALSE, "",
           Store(TRUE, "true", ""), NoStore) }

\* no call made yet
NoCall == [op |-> "none", ds |-> Source("", "", "", FALSE, "", NoStore, NoStore),
           enabled |-> FALSE, filename |-> <<>>]

\* new DatasourceCache(): cacheOptions is the caching block of the
\* configuration, enabled unless both stores are disabled; with the
\* configuration it was made from, the last call and the one before it
newCache(cfg) ==
  [ config       |-> cfg,
    cacheOptions |-> [directory |-> cfg.directory, redis |-> cfg.redis],
    enabled      |-> ~(cfg.directory.enabled = "false" /\ cfg.redis.enabled = "false"),
    last         |-> NoCall,
    prev         |-> NoCall ]

\* Server.components without a page
noComponents == [p \in {<<S("index")>>, <<S("a")>>} |-> 0]

\* no handler made by a verb method
idleVerb == [args |-> <<>>, requests |-> <<>>, log |-> <<>>]

\* a cache no datasource has asked
idleCache ==
  newCache([directory |-> Store(TRUE, "true", ConfigPath),
            redis |-> Store(TRUE, "false", ""), debug |-> FALSE])

(* ------------------------------------------------------------------ *)
(* Actions of the router                                                *)
(* ------------------------------------------------------------------ *)

Init ==
  /\ paths = <<>>
  /\ all = <<>>
  /\ errors = <<DefaultError>>
  /\ regSeq = 0
  /\ req = idleReq
  /\ page = emptyPage
  /\ ctl = idleCtl
  /\ datasources = loaded
  /\ cars = idleCars
  /\ dsCache = idleCache
  /\ components = noComponents
  /\ verb = idleVerb

\* use(path, handler) on the route list: push, then sort
use(ps, p, handler, seq) ==
  sortPaths(Append(ps, [path |-> p, order |-> order(p),
                        handler |-> handler, seq |-> seq]))

\* unuse(path) on the route list: _.findWhere, then _.without
unuse(ps, p) == removeAt(ps, findWhere(ps, p))

\* use(path, handler) with a string path
UseRoute(p) ==
  /\ regSeq < MaxReg
  /\ regSeq' = regSeq + 1
  /\ paths' = use(paths, p, routeHandler(regSeq + 1), regSeq + 1)
  /\ UNCHANGED <<all, errors, req, page, ctl, datasources, cars, server>>

\* use(fn): four declared parameters make an error handler
UseFn(fn) ==
  /\ regSeq < MaxReg
  /\ regSeq' = regSeq + 1
  /\ IF arity(fn) = 4
     THEN errors' = Append(errors, fn) /\ all' = all
     ELSE all' = Append(all, [fn |-> fn, seq |-> regSeq + 1]) /\ errors' = errors
  /\ UNCHANGED <<paths, req, page, ctl, datasources, cars, server>>

\* unuse(path) with a string path: _.findWhere, then _.without
UnuseRoute(p) ==
  /\ paths' = unuse(paths, p)
  /\ UNCHANGED <<all, errors, regSeq, req, page, ctl, datasources, cars, server>>

\* unuse(fn): indexOf and splice on the list the arity selects
UnuseFn(fn) ==
  /\ IF arity(fn) = 4
     THEN errors' = removeAt(errors, indexOf(errors, fn)) /\ all' = all
     ELSE all' = removeAt(all, indexOf([i \in DOMAIN all |-> all[i].fn], fn)) /\ errors' = errors
  /\ UNCHANGED <<paths, regSeq, req, page, ctl, datasources, cars, server>>

\* the listener that leaves the global middleware out of the chain
listenerNoMiddleware(path, ps, mws, errs) ==
  LET m  == match(ps, path)
      r0 == [idleReq EXCEPT !.url = path,
                            !.stack = buildStack(<<>>, m.handlers),
                            !.snapshot = mws,
                            !.params = m.params]
  IN doStack(r0, NoErr, ps, errs)

\* listener(req, res): snapshot, match, build the chain, doStack(0)()
listener(path, ps, mws, errs) ==
  LET m  == match(ps, path)
      r0 == [idleReq EXCEPT !.url = path,
                            !.stack = buildStack(mws, m.handlers),
                            !.snapshot = mws,
                            !.params = m.params]
  IN doStack(r0, NoErr, ps, errs)

Dispatch(path) ==
  /\ req.pending = "none"
  /\ ~req.crashed
  /\ req' = listener(path, paths, all, errors)
  /\ UNCHANGED <<paths, all, errors, regSeq, page, ctl, datasources, cars, server>>

\* the handler holding a continuation invokes it, with or without an error;
\* the '/404' handler was given none
HandlerNext(err) ==
  /\ req.pending \in {"stage", "err", "h404"}
  /\ req' = CASE req.pending = "stage" -> doStack(req, err, paths, errors)
              [] req.pending = "err"   -> errStack(req, err, errors)
              [] req.pending = "h404"  -> throw(req)
  /\ UNCHANGED <<paths, all, errors, regSeq, page, ctl, datasources, cars, server>>

\* the handler answers the request itself
HandlerEnd ==
  /\ req.pending \in {"stage", "err", "h404"}
  /\ req' = end(req, "handler")
  /\ UNCHANGED <<paths, all, errors, regSeq, page, ctl, datasources, cars, server>>

Next ==
  \/ \E p \in Patterns : UseRoute(p)
  \/ \E fn \in Middlewares \cup ErrHandlers : UseFn(fn)
  \/ \E p \in Patterns : UnuseRoute(p)
  \/ \E fn \in Middlewares \cup ErrHandlers : UnuseFn(fn)
  \/ \E path \in ReqPaths : Dispatch(path)
  \/ \E err \in Errs \cup {NoErr} : HandlerNext(err)
  \/ HandlerEnd

Spec == Init /\ [][Next]_vars

(* ------------------------------------------------------------------ *)
(* Properties of the router                                             *)
(* ------------------------------------------------------------------ *)

\* C1: after any sequence of use and unuse calls the route list is sorted
\* by descending score, and routes of equal score are in registration order
C1_SortedStable ==
  \A i, j \in DOMAIN paths :
    i < j => \/ paths[i].order > paths[j].order
             \/ paths[i].order = paths[j].order /\ paths[i].seq < paths[j].seq

\* three routes, the last registered sorted to the front, the other two tied
C1_Witness ==
  /\ Len(paths) = 3
  /\ paths[1].seq = 3
  /\ paths[1].order > paths[2].order
  /\ paths[2].order = paths[3].order

\* the routes of ps that match path, lowest index first
firstMatch(ps, path) ==
  CHOOSE i \in matching(ps, path) : \A j \in matching(ps, path) : i <= j

routeStages(st) == {k \in DOMAIN st : st[k].kind = "route"}

\* C2: a dispatch puts at most one routed handler in the chain, that of the
\* first route in priority order matching the path, and req.params holds
\* exactly that route's named captures (none when no route matches)
C2_FirstMatchOnly ==
  [][ (req.pending = "none" /\ req' # req) =>
        LET rs == routeStages(req'.stack)
            m  == matching(paths, req'.url)
        IN /\ Cardinality(rs) <= 1
           /\ m = {} => rs = {} /\ req'.params = <<>>
           /\ m # {} =>
                /\ \E k \in rs : req'.stack[k].fn = paths[firstMatch(paths, req'.url)].handler
                /\ req'.params = exec(paths[firstMatch(paths, req'.url)].path, req'.url).params
                /\ \A n \in DOMAIN req'.params :
                     \E i \in DOMAIN paths[firstMatch(paths, req'.url)].path :
                        /\ paths[firstMatch(paths, req'.url)].path[i].name = n
                        /\ paths[firstMatch(paths, req'.url)].path[i].kind # "s"
     ]_vars

\* two registered routes match the request, one handler is in the chain and
\* a parameter was captured
C2_Witness ==
  /\ Cardinality(matching(paths, req.url)) >= 2
  /\ Cardinality(routeStages(req.stack)) = 1
  /\ DOMAIN req.params # {}
  /\ \E i, j \in matching(paths, req.url) : paths[i].handler # paths[j].handler

\* C3: the chain is the global middleware in registration order, then the
\* matched route handler if any, then the not-found terminal, and its stages
\* are started one after the other in that order
C3_ChainOrder ==
  req.stack # <<>> =>
    LET n == Len(req.snapshot)
    IN /\ \A k \in 1..n : req.stack[k] = stage("mw", req.snapshot[k].fn)
       /\ \A k, l \in 1..n : k < l => req.snapshot[k].seq < req.snapshot[l].seq
       /\ Len(req.stack) \in {n + 1, n + 2}
       /\ req.stack[Len(req.stack)] = stage("nf", NotFound)
       /\ Len(req.stack) = n + 2 => req.stack[n + 1].kind = "route"
       /\ \A k \in DOMAIN req.started : req.started[k] = k
       /\ req.nextI = Len(req.started)

\* two middleware, the route handler and the terminal were all started
C3_Witness ==
  /\ Len(req.stack) = 4
  /\ req.stack[3].kind = "route"
  /\ req.started = <<1, 2, 3, 4>>

\* C4: when a stage invokes its continuation with an error no later stage of
\* the normal chain is run and the error goes to the first error handler
C4_ErrorShortCircuits ==
  [][ \A e \in Errs :
        (req.pending = "stage" /\ HandlerNext(e)) =>
           /\ req'.started = req.started
           /\ req'.errLog = <<[handler |-> Head(errors), err |-> e]>>
     ]_vars

\* an error was raised by the first of three stages; the others never ran
C4_Witness ==
  /\ req.errLog # <<>>
  /\ Len(req.stack) = 3
  /\ req.started = <<1>>

\* C5: the default handler is the last element of the error-handler chain
\* and runs only after every registered error handler passed the error on
C5_DefaultHandlerLast ==
  /\ errors[Len(errors)] = DefaultError
  /\ \A k \in DOMAIN req.errLog :
       req.errLog[k].handler = DefaultError =>
          \A i \in 1..(Len(errors) - 1) :
             \E l \in 1..(k - 1) : req.errLog[l].handler = errors[i]

\* C21: the chain of a request holds exactly the global middleware
\* registered when its dispatch began, and registering or unregistering
\* while the request is in flight changes neither the chain nor what of it
\* has run
C21_MiddlewareSnapshot ==
  [][ /\ (req.pending = "none" /\ req' # req) =>
            /\ req'.snapshot = all
            /\ Len(req'.stack) > Len(all)
            /\ \A k \in DOMAIN all : req'.stack[k] = stage("mw", all[k].fn)
            /\ req'.stack[Len(all) + 1].kind # "mw"
      /\ req.pending # "none" =>
            /\ req'.stack = req.stack
            /\ req'.snapshot = req.snapshot
      /\ (all' # all \/ paths' # paths \/ errors' # errors) => req' = req
     ]_vars

\* both middleware were unregistered while the request was in flight, and
\* the second of them is running
C21_Witness ==
  /\ req.pending = "stage"
  /\ Len(req.snapshot) = 2
  /\ all = <<>>
  /\ req.started = <<1, 2>>
  /\ req.stack[2].kind = "mw"

\* C22: the default error handler sets the status to the error's statusCode
\* or to 500, sends the error's json as body or an empty body, and ends the
\* response without a continuation
C22_DefaultErrorResponse ==
  [][ (/\ Len(req'.errLog) = Len(req.errLog) + 1
       /\ req'.errLog[Len(req'.errLog)].handler = DefaultError) =>
        LET e == req'.errLog[Len(req'.errLog)].err
        IN /\ req'.statusCode = IF e.statusCode > 0 THEN e.statusCode ELSE 500
           /\ req'.body = IF e.json THEN "json" ELSE ""
           /\ req'.ends = Min(req.ends + 1, MaxEnds)
           /\ req'.pending = "none"
           /\ req'.started = req.started
     ]_vars

\* an error with statusCode 404 and a json payload was answered
C22_Witness ==
  /\ req.errLog # <<>>
  /\ req.errLog[Len(req.errLog)].err = [statusCode |-> 404, json |-> TRUE]
  /\ req.statusCode = 404
  /\ req.body = "json"
  /\ req.ends = 1

\* C23: when the chain reaches the not-found terminal the status is 404 and
\* the request is given to the handler of the '/404' route registered at
\* that moment, or answered with the plain text when there is none
C23_NotFoundTerminal ==
  [][ (/\ req' # req
       /\ req'.stack # <<>>
       /\ req'.nextI = Len(req'.stack)
       /\ req.pending = "none" \/ req'.nextI # req.nextI) =>
        /\ req'.statusCode = 404
        /\ IF \E i \in DOMAIN paths : paths[i].path = <<S("404")>>
           THEN /\ req'.pending = "h404"
                /\ req'.served = paths[findWhere(paths, <<S("404")>>)].handler
                /\ req'.ends = IF req.pending = "none" THEN 0 ELSE req.ends
           ELSE /\ req'.body = "404: Ain't nothing here but you and me."
                /\ req'.ends = IF req.pending = "none" THEN 1 ELSE Min(req.ends + 1, MaxEnds)
                /\ req'.pending = "none"
     ]_vars

\* a stage passed control on to the terminal, which called the handler of a
\* '/404' route registered after the dispatch
C23_Witness ==
  /\ req.pending = "h404"
  /\ req.statusCode = 404
  /\ Len(req.started) >= 2
  /\ \E i \in DOMAIN paths : paths[i].handler = req.served /\ paths[i].seq > 1
  /\ Len(req.snapshot) = 1 /\ req.snapshot[1].seq = 1

(* ------------------------------------------------------------------ *)
(* Controller: process, loadData, loadEventData, processChained         *)
(* ------------------------------------------------------------------ *)

\* The callbacks below work on s = [r |-> request, c |-> pipeline,
\* d |-> the Datasource objects].

\* next(err): the continuation doStack handed to the controller
next(s, err) == [s EXCEPT !.r = doStack(s.r, err, paths, errors)]

\* Send.json / Send.html: an error goes to next, else the body is sent
send(s, code, err, body) ==
  IF err # NoErr THEN next(s, err)
  ELSE [s EXCEPT !.r = end([s.r EXCEPT !.statusCode = code], body)]

\* err of view.render's catch: err.statusCode = 500
RenderErr == [statusCode |-> 500, json |-> FALSE]

\* new Error() of processChained: no statusCode, no json
ChainedErr == [statusCode |-> 0, json |-> FALSE]

\* data.hasOwnProperty(k)
hasOwnProperty(data, k) == data[k] # "none"

\* data[k].hasOwnProperty('results')
hasResults(v) == v \in {"empty", "full"}

\* data[k].results.length
resultsLength(v) == IF v = "full" THEN 1 ELSE 0

\* the check that asks for the key only
requiredDataPresentKeyOnly(c, arg) ==
  \/ page.requiredDatasources = {}
  \/ arg = "data" /\ \A k \in page.requiredDatasources : hasOwnProperty(c.data, k)

\* arg is what the callback of loadData was given as data: the working data
\* set ("data"), a provider result ("result") or nothing ("undefined")
requiredDataPresent(c, arg) ==
  \/ page.requiredDatasources = {}
  \/ arg = "data" /\ \A k \in page.requiredDatasources :
                        /\ hasOwnProperty(c.data, k)
                        /\ hasResults(c.data[k])
                        /\ resultsLength(c.data[k]) # 0

hasAttachedDatasources(pg) == Len(pg.datasources) > 0

\* the callback of loadData without its check for a 404 status
loadDataDoneNo404(s, err, arg, dsResponse) ==
  LET s1 == [s EXCEPT !.c.doneCalls = @ + 1,
                      !.c.doneErr = err,
                      !.c.gatedEarly = @ \/ s.c.stage # "final"]
  IN IF page.requiredDatasources # {} /\ arg = "undefined"
     THEN [s1 EXCEPT !.r = throw(s1.r), !.c.gate = "throw"]
     ELSE IF ~requiredDataPresent(s1.c, arg)
          THEN next([s1 EXCEPT !.c.gate = "fail"], NoErr)
     ELSE LET s2 == [s1 EXCEPT !.c.gate = "pass"] IN
          IF err # NoErr THEN send(s2, 200, err, "")
          ELSE IF dsResponse = 202 THEN send(s2, 202, NoErr, "json")
          ELSE IF s2.c.json THEN send(s2, 200, NoErr, "json")
          ELSE [s2 EXCEPT !.c.renders = @ + 1, !.c.renderStarted = TRUE]

\* the callback process passes to loadData as done(err, data, dsResponse):
\* gating first, then the error, then the raw response, then json or render
loadDataDone(s, err, arg, dsResponse) ==
  LET s1 == [s EXCEPT !.c.doneCalls = @ + 1,
                      !.c.doneErr = err,
                      !.c.gatedEarly = @ \/ s.c.stage # "final"]
  IN IF page.requiredDatasources # {} /\ arg = "undefined"
     THEN [s1 EXCEPT !.r = throw(s1.r), !.c.gate = "throw"]
     ELSE IF ~requiredDataPresent(s1.c, arg)
          THEN next([s1 EXCEPT !.c.gate = "fail"], NoErr)
     ELSE LET s2 == [s1 EXCEPT !.c.gate = "pass"] IN
          IF err # NoErr
          THEN IF err.statusCode = 404 THEN next(s2, NoErr)
               ELSE send(s2, 200, err, "")
          ELSE IF dsResponse = 202 THEN send(s2, 202, NoErr, "json")
          ELSE IF s2.c.json THEN send(s2, 200, NoErr, "json")
          ELSE [s2 EXCEPT !.c.renders = @ + 1, !.c.renderStarted = TRUE]

\* final callback of the waterfall: done(err, data), data being the object
\* loadData was called with
final(s) ==
  loadDataDone([s EXCEPT !.c.stage = "final", !.c.finalData = "data"],
               NoErr, "data", 0)

\* event.run(req, res, data, ...): the event is given the object the data
\* parameter refers to
eventRun(c, name) ==
  [c EXCEPT !.evStarted = Append(@, [name |-> name, data |-> c.evLocal])]

\* fourth task: loadEventData(self.events, ...) called with loadData's data,
\* the first event is started unless there is none
postload(s) ==
  IF page.events = <<>> THEN final([s EXCEPT !.c.stage = "postload"])
  ELSE [s EXCEPT !.c = eventRun([@ EXCEPT !.stage = "postload", !.ev = 1,
                                          !.postStarted = 1,
                                          !.evLocal = "data"],
                                page.events[1])]

\* the continuation loadData gives processChained: an error goes to done,
\* else the waterfall goes on
chainedDone(s, err) ==
  LET s1 == [s EXCEPT !.c.chDone = @ + 1]
  IN IF err # NoErr THEN loadDataDone(s1, err, "undefined", 0) ELSE postload(s1)

\* the message that leaves out the parent
messageNoParent(d) ==
  <<"Chained datasource '", d.name, "' expected to find data.">>

\* the message of the error for a missing parent, as the strings concatenated
message(d) ==
  <<"Chained datasource '", d.name,
    "' expected to find data from datasource '", d.chained, "'.">>

\* chained.outputParam.param of the chained datasources, split at the dots
ParamPath == <<"results", "0", "id">>

\* how many leading segments of ParamPath a result resolves
depth(v) == CASE v = "full" -> Len(ParamPath) [] v = "empty" -> 1 [] OTHER -> 0

RECURSIVE reduce(_, _, _)
\* .reduce(function (o, x) { return o ? o[x] : '' }, data[parent]) from
\* segment i on: o is "object" or "value" while it resolves, "undefined"
\* where a segment is missing, "" after that
reduce(o, v, i) ==
  IF i > Len(ParamPath) THEN o
  ELSE IF o \in {"undefined", ""} THEN reduce("", v, i + 1)
  ELSE IF i > depth(v) THEN reduce("undefined", v, i + 1)
  ELSE reduce(IF i = Len(ParamPath) THEN "value" ELSE "object", v, i + 1)

\* encodeURIComponent(param): undefined becomes the text 'undefined'
encodeURIComponent(o) == IF o = "undefined" THEN "'undefined'" ELSE o

\* the parameter a chained fetch is made with
outputParam(v) == encodeURIComponent(reduce("object", v, 1))

\* what processChained writes before the fetch: cache = false when the query
\* says so, and filter[outputParam.field] = param, both in the datasource
\* block of the schema
prepareChained(s, k, param) ==
  [s EXCEPT !.d[k].schema.cache = IF s.c.query = "cache" THEN "false" ELSE @,
            !.d[k].schema.filter.field = param]

\* provider.initialise(chainedDatasource, schema) and buildEndpoint: the
\* fetch is made with the cache flag and the filter the schema holds now
buildEndpoint(s, k) ==
  [s EXCEPT !.c.chCache[k] = s.d[k].schema.cache,
            !.c.chFilter[k] = s.d[k].schema.filter.field]

RECURSIVE chainedEach(_, _)
\* _.each(chainedDatasources, ...): a missing parent calls done(err) and the
\* iteration goes on; otherwise the parameter is extracted from the parent's
\* result and the fetch is started
chainedEach(s, ds) ==
  IF ds = <<>> \/ s.r.crashed THEN s
  ELSE LET d  == Head(ds)
           s1 == [s EXCEPT !.c.chSeen = @ \cup {d.key}]
       IN IF s.c.data[d.chained] = "none"
          THEN chainedEach(
                 chainedDone([s1 EXCEPT !.c.chErrs =
                                Append(@, [key |-> d.key, message |-> message(d)])],
                             ChainedErr),
                 Tail(ds))
          ELSE chainedEach(
                 buildEndpoint(
                   prepareChained(
                     [s1 EXCEPT !.c.chInflight = @ \cup {d.key},
                                !.c.providers = @ \cup {d.key},
                                !.c.chStarted = @ \cup {d.key},
                                !.c.chParam[d.key] = outputParam(s.c.data[d.chained])],
                     d.key, outputParam(s.c.data[d.chained])),
                   d.key),
                 Tail(ds))

\* the stage that starts the fetch of its first datasource only
processChainedFirstOnly(s) ==
  LET s1 == [s EXCEPT !.c.stage = "chained"]
  IN IF chainedDatasources(page) = <<>> THEN chainedDone(s1, NoErr)
     ELSE chainedEach(s1, SubSeq(chainedDatasources(page), 1, 1))

\* third task: processChained; without chained datasources done(null, data)
\* is called at once and the waterfall goes on
processChained(s) ==
  LET s1 == [s EXCEPT !.c.stage = "chained"]
  IN IF chainedDatasources(page) = <<>> THEN chainedDone(s1, NoErr)
     ELSE chainedEach(s1, chainedDatasources(page))

\* Datasource.prototype.processRequest, as far as it writes to the object:
\* datasourceParams.filter is originalFilter itself when the query's filter
\* is merged into it, a requestParam without target is given one, and
\* source.modifiedEndpoint is set
processRequest(ds, k, query) ==
  [ds EXCEPT ![k].originalFilter =
                IF page.passFilters /\ query = "filter" THEN "extended" ELSE @,
             ![k].requestParams = "target",
             ![k].source = "modified"]

\* processSearchParameters(key, ds, req) in the queue's worker: the filter
\* handed to the provider is extended by the filterEventResult the schema
\* holds at this moment
processSearchParameters(s, k) ==
  [s EXCEPT !.d = processRequest(s.d, k, s.c.query),
            !.c.handed[k] = s.d[k].schema.filterEventResult]

RECURSIVE qprocess(_)
\* q.process(): start workers while the queue has tasks and room; a worker
\* starts the filterEvent if any (one that calls back at once has stored its
\* filter when run returns), attaches a provider, processes the request
\* parameters and calls provider.load
qprocess(s) ==
  IF s.c.queue = <<>> \/ Cardinality(s.c.workers) >= concurrency THEN s
  ELSE LET d == Head(s.c.queue)
       IN qprocess(processSearchParameters(
            [s EXCEPT !.c.queue = Tail(@),
                      !.c.workers = @ \cup {d.key},
                      !.c.inflight = @ \cup {d.key},
                      !.c.providers = @ \cup {d.key},
                      !.c.startedPrim = Append(@, d.key),
                      !.c.filterPending =
                         IF d.filterEvent = "later" THEN @ \cup {d.key} ELSE @,
                      !.d[d.key].schema.filterEventResult =
                         IF d.filterEvent = "atOnce" THEN "set" ELSE @],
            d.key))

\* the second task starting the chained stage without the primary fetches
runDatasourcesNoWait(s) == processChained(s)

\* second task: callback(null) at once when no datasource is attached, and
\* every primary datasource is pushed on the queue
runDatasources(s) ==
  LET s1 == [s EXCEPT !.c.stage = "primary",
                      !.c.queue = primaryDatasources(page)]
  IN IF ~hasAttachedDatasources(page) THEN processChained(s1) ELSE s1

\* the first task handing over to the second without running the events
preloadNoWait(s) == runDatasources(s)

\* first task: loadEventData(self.preloadEvents, ...) called with
\* loadData's data
preload(s) ==
  IF attachEvents(page) = <<>>
  THEN runDatasources([s EXCEPT !.c.stage = "preload"])
  ELSE [s EXCEPT !.c = eventRun([@ EXCEPT !.stage = "preload", !.ev = 1,
                                          !.evLocal = "data"],
                                attachEvents(page)[1])]

\* Controller.prototype.process: the view data, then loadData
process(r, json, query) ==
  preload([r |-> r,
           c |-> [idleCtl EXCEPT !.json = json, !.query = query],
           d |-> datasources])

\* the worker's callback that calls cb() after an error as well
primaryErrorContinue(s, k, e) ==
  LET s1 == loadDataDone([s EXCEPT !.c.inflight = @ \ {k}, !.c.primErr = e],
                         e, "undefined", 0)
      c2 == [s1.c EXCEPT !.workers = @ \ {k}]
  IN IF c2.queue = <<>> /\ c2.workers = {}
     THEN processChained([s1 EXCEPT !.c = c2])
     ELSE qprocess([s1 EXCEPT !.c = c2])

\* provider.load called back with an error: done(err), cb is never called
primaryError(s, k, e) ==
  loadDataDone([s EXCEPT !.c.inflight = @ \ {k}, !.c.primErr = e],
               e, "undefined", 0)

\* provider.load called back with a raw response: the provider is destroyed
\* and detached, then done(null, result, dsResponse)
primaryResponse(s, k, code) ==
  loadDataDone([s EXCEPT !.c.inflight = @ \ {k}, !.c.providers = @ \ {k}],
               NoErr, "result", code)

\* provider.load called back with a result: the provider is destroyed and
\* detached, the result stored, cb(), then drain or the next task
primaryResult(s, k, v) ==
  LET c1 == [s.c EXCEPT !.inflight = @ \ {k},
                        !.providers = @ \ {k},
                        !.workers = @ \ {k},
                        !.completedPrim = Append(@, k),
                        !.data[k] = IF v = "none" THEN @ ELSE v]
  IN IF c1.queue = <<>> /\ c1.workers = {}
     THEN processChained([s EXCEPT !.c = c1])
     ELSE qprocess([s EXCEPT !.c = c1])

\* the load callback that hands a fetch error to the stage's continuation
chainedLoadedAbort(s, k, err, v) ==
  LET c1 == [s.c EXCEPT !.chInflight = @ \ {k},
                        !.chLogged = IF err # NoErr THEN @ \cup {k} ELSE @,
                        !.idx = @ + 1,
                        !.data[k] = IF v = "none" THEN @ ELSE v]
  IN IF err # NoErr THEN chainedDone([s EXCEPT !.c = c1], err)
     ELSE IF c1.idx = Len(chainedDatasources(page))
          THEN chainedDone([s EXCEPT !.c = c1], NoErr)
          ELSE [s EXCEPT !.c = c1]

\* the load callback of a chained fetch: the error is logged, the data is
\* stored, and the last callback calls done(null, data)
chainedLoaded(s, k, err, v) ==
  LET c1 == [s.c EXCEPT !.chInflight = @ \ {k},
                        !.chLogged = IF err # NoErr THEN @ \cup {k} ELSE @,
                        !.idx = @ + 1,
                        !.data[k] = IF v = "none" THEN @ ELSE v]
  IN IF c1.idx = Len(chainedDatasources(page))
     THEN chainedDone([s EXCEPT !.c = c1], NoErr)
     ELSE [s EXCEPT !.c = c1]

\* the result of an event: one with the sentinel is assigned to the data
\* parameter of loadEventData (a copy holds what the object it was made
\* from holds), any other is stored under the event's name in the object
\* the parameter refers to
eventResult(c, name, result) ==
  IF result = "copy"
  THEN [c EXCEPT !.evKeys.result = c.evKeys[c.evLocal],
                 !.evLocal = "result",
                 !.replacedAt = Len(c.evStarted)]
  ELSE IF result = "keyed"
       THEN [c EXCEPT !.evKeys[c.evLocal] = @ \cup {name}]
       ELSE c

\* the callback of an event that takes an error for an event without result
eventDoneNoReject(s, err, result) ==
  LET pre == s.c.stage = "preload"
      evs == IF pre THEN attachEvents(page) ELSE page.events
      c1  == IF pre THEN [s.c EXCEPT !.preDone = @ + 1]
                    ELSE [s.c EXCEPT !.postDone = @ + 1]
  IN IF s.c.ev < Len(evs)
     THEN [s EXCEPT !.c = eventRun([c1 EXCEPT !.ev = @ + 1,
                                              !.postStarted = IF pre THEN @ ELSE @ + 1],
                                   evs[s.c.ev + 1])]
     ELSE IF pre THEN runDatasources([s EXCEPT !.c = [c1 EXCEPT !.ev = 0]])
          ELSE final([s EXCEPT !.c = [c1 EXCEPT !.ev = 0]])

\* an event of loadEventData called back: an error rejects the chain and
\* done(err) follows; otherwise the result is kept and the next event starts
\* or done(null, data) is called, whose data the callbacks of loadData drop
eventDone(s, err, result) ==
  LET pre == s.c.stage = "preload"
      evs == IF pre THEN attachEvents(page) ELSE page.events
      c0  == eventResult(s.c, evs[s.c.ev], result)
      c1  == IF pre THEN [c0 EXCEPT !.preDone = @ + 1]
                    ELSE [c0 EXCEPT !.postDone = @ + 1]
  IN IF err # NoErr
     THEN loadDataDone([s EXCEPT !.c.ev = 0], err, "undefined", 0)
     ELSE IF s.c.ev < Len(evs)
          THEN [s EXCEPT !.c = eventRun([c1 EXCEPT !.ev = @ + 1,
                                                   !.postStarted = IF pre THEN @ ELSE @ + 1],
                                        evs[s.c.ev + 1])]
          ELSE IF pre THEN runDatasources([s EXCEPT !.c = [c1 EXCEPT !.ev = 0]])
               ELSE final([s EXCEPT !.c = [c1 EXCEPT !.ev = 0]])

\* log.error of Event.run: the event that is running is logged
eventLog(s) ==
  LET evs == IF s.c.stage = "preload" THEN attachEvents(page) ELSE page.events
  IN [s EXCEPT !.c.evLog = @ \cup {evs[s.c.ev]}]

\* what becomes of a call of Event.run: the event calls back, or its file is
\* missing, or it throws before it calls back
EventOutcomes == {"calls back", "missing", "throws"}

\* Event.prototype.run: the callback of the event logs an error and hands
\* (err, result) on; an exception of loadEvent or of the event is logged and
\* done(null, null) is called
run(s, outcome, err, result) ==
  IF outcome = "calls back"
  THEN eventDone(IF err # NoErr THEN eventLog(s) ELSE s, err, result)
  ELSE eventDone(eventLog(s), NoErr, "none")

(* ------------------------------------------------------------------ *)
(* Actions of a page request                                            *)
(* ------------------------------------------------------------------ *)

\* the path of the page's route
PagePath == <<"a">>

cur == [r |-> req, c |-> ctl, d |-> datasources]

set(s) ==
  /\ req' = s.r
  /\ ctl' = s.c
  /\ datasources' = s.d
  /\ UNCHANGED <<paths, all, errors, regSeq, page, cars, server>>

InitCtl ==
  /\ paths = <<[path |-> <<S("a")>>, order |-> order(<<S("a")>>),
                handler |-> CtlHandler, seq |-> 1]>>
  /\ all = <<>>
  /\ errors = <<DefaultError>>
  /\ regSeq = 1
  /\ req = idleReq
  /\ page \in Pages
  /\ ctl = idleCtl
  /\ datasources = loaded
  /\ cars = idleCars
  /\ dsCache = idleCache
  /\ components = noComponents
  /\ verb = idleVerb

\* a request for the page: listener calls the controller, which runs up to
\* its first suspension
Request(json, query) ==
  /\ ctl.stage = "idle"
  /\ req.pending = "none"
  /\ set(process(listener(PagePath, paths, all, errors), json, query))

\* an event called back with an error, or with a result
EventCallback(err, result) ==
  /\ ~req.crashed
  /\ ctl.ev > 0
  /\ set(run(cur, "calls back", err, result))

\* an event that cannot be loaded, or that throws
EventFails(outcome) ==
  /\ ~req.crashed
  /\ ctl.ev > 0
  /\ set(run(cur, outcome, NoErr, "none"))

\* the setImmediate of queue.push
QueueProcess ==
  /\ ~req.crashed
  /\ ctl.stage = "primary"
  /\ ctl.queue # <<>>
  /\ Cardinality(ctl.workers) < concurrency
  /\ set(qprocess(cur))

\* ds.filterEvent.run called back: done(err), or the filter is kept in the
\* datasource block of the schema
FilterEventCallback(k, err) ==
  /\ ~req.crashed
  /\ k \in ctl.filterPending
  /\ LET s == [cur EXCEPT !.c.filterPending = @ \ {k}]
     IN set(IF err # NoErr THEN loadDataDone(s, err, "undefined", 0)
            ELSE [s EXCEPT !.d[k].schema.filterEventResult = "set"])

PrimaryError(k, e) ==
  /\ ~req.crashed
  /\ k \in ctl.inflight
  /\ set(primaryError(cur, k, e))

PrimaryResponse(k, code) ==
  /\ ~req.crashed
  /\ k \in ctl.inflight
  /\ set(primaryResponse(cur, k, code))

PrimaryResult(k, v) ==
  /\ ~req.crashed
  /\ k \in ctl.inflight
  /\ set(primaryResult(cur, k, v))

ChainedCallback(k, err, v) ==
  /\ ~req.crashed
  /\ k \in ctl.chInflight
  /\ set(chainedLoaded(cur, k, err, v))

\* view.render called back: the output is sent, an error goes to next
RenderCallback(err) ==
  /\ ~req.crashed
  /\ ctl.renders > 0
  /\ LET s == [cur EXCEPT !.c.renders = @ - 1]
     IN set(IF err # NoErr THEN next(s, err) ELSE send(s, 200, NoErr, "html"))

NextCtl ==
  \/ \E json \in BOOLEAN, query \in Queries : Request(json, query)
  \/ \E err \in Errs \cup {NoErr} : EventCallback(err, "none")
  \/ QueueProcess
  \/ \E k \in DsKeys, err \in Errs \cup {NoErr} : FilterEventCallback(k, err)
  \/ \E k \in DsKeys, e \in Errs : PrimaryError(k, e)
  \/ \E k \in DsKeys, code \in {200, 202} : PrimaryResponse(k, code)
  \/ \E k \in DsKeys, v \in Results : PrimaryResult(k, v)
  \/ \E k \in DsKeys, err \in Errs \cup {NoErr}, v \in Results :
        ChainedCallback(k, err, v)
  \/ \E err \in {NoErr, RenderErr} : RenderCallback(err)

SpecCtl == InitCtl /\ [][NextCtl]_vars

\* every event, fetch and render that was started calls back, and the
\* setImmediate of the queue runs
CallsBack ==
  /\ WF_vars(\E err \in Errs \cup {NoErr} : EventCallback(err, "none"))
  /\ WF_vars(QueueProcess)
  /\ \A k \in DsKeys :
       /\ WF_vars(\E err \in Errs \cup {NoErr} : FilterEventCallback(k, err))
       /\ WF_vars(\/ \E e \in Errs : PrimaryError(k, e)
                  \/ \E code \in {200, 202} : PrimaryResponse(k, code)
                  \/ \E v \in Results : PrimaryResult(k, v))
       /\ WF_vars(\E err \in Errs \cup {NoErr}, v \in Results :
                    ChainedCallback(k, err, v))
  /\ WF_vars(\E err \in {NoErr, RenderErr} : RenderCallback(err))

SpecCtlLive == InitCtl /\ [][NextCtl]_vars /\ CallsBack

(* ------------------------------------------------------------------ *)
(* Requests one after the other on a page with chained datasources      *)
(* ------------------------------------------------------------------ *)

\* pages with a primary datasource and two datasources chained to it
ChainPages ==
  {pg \in AllPages : /\ pg.datasources = <<DS("A", "", ""), DS("X", "A", ""),
                                            DS("Y", "A", "")>>
                     /\ pg.requiredDatasources = {}
                     /\ pg.globalEvents = <<>>
                     /\ pg.preloadEvents = <<>>
                     /\ pg.events = <<>>}

InitChain ==
  /\ paths = <<[path |-> <<S("a")>>, order |-> order(<<S("a")>>),
                handler |-> CtlHandler, seq |-> 1]>>
  /\ all = <<>>
  /\ errors = <<DefaultError>>
  /\ regSeq = 1
  /\ req = idleReq
  /\ page \in ChainPages
  /\ ctl = idleCtl
  /\ datasources = loaded
  /\ cars = idleCars
  /\ dsCache = idleCache
  /\ components = noComponents
  /\ verb = idleVerb

\* the next request for the page, once the one before has no callback
\* outstanding: a new req and a new pipeline, on the Datasource objects the
\* controller attached when it was made
NextRequest(json, query) ==
  /\ ctl.stage # "idle"
  /\ req.pending = "none"
  /\ ctl.queue = <<>> /\ ctl.inflight = {} /\ ctl.chInflight = {}
  /\ ctl.renders = 0
  /\ set(process(listener(PagePath, paths, all, errors), json, query))

NextChain ==
  \/ \E json \in BOOLEAN, query \in Queries : Request(json, query)
  \/ \E json \in BOOLEAN, query \in Queries : NextRequest(json, query)
  \/ QueueProcess
  \/ \E k \in DsKeys, e \in Errs : PrimaryError(k, e)
  \/ \E k \in DsKeys, code \in {200, 202} : PrimaryResponse(k, code)
  \/ \E k \in DsKeys, v \in Results : PrimaryResult(k, v)
  \/ \E k \in DsKeys, err \in Errs \cup {NoErr}, v \in Results :
        ChainedCallback(k, err, v)
  \/ \E err \in {NoErr, RenderErr} : RenderCallback(err)

SpecChain == InitChain /\ [][NextChain]_vars

(* ------------------------------------------------------------------ *)
(* Events: pages without datasources, events with every kind of result  *)
(* ------------------------------------------------------------------ *)

InitEvents ==
  /\ paths = <<[path |-> <<S("a")>>, order |-> order(<<S("a")>>),
                handler |-> CtlHandler, seq |-> 1]>>
  /\ all = <<>>
  /\ errors = <<DefaultError>>
  /\ regSeq = 1
  /\ req = idleReq
  /\ page \in EventPages
  /\ ctl = idleCtl
  /\ datasources = loaded
  /\ cars = idleCars
  /\ dsCache = idleCache
  /\ components = noComponents
  /\ verb = idleVerb

NextEvents ==
  \/ \E json \in BOOLEAN, query \in Queries : Request(json, query)
  \/ \E err \in Errs : EventCallback(err, "none")
  \/ \E result \in EventResults : EventCallback(NoErr, result)
  \/ \E outcome \in EventOutcomes \ {"calls back"} : EventFails(outcome)
  \/ \E err \in {NoErr, RenderErr} : RenderCallback(err)

SpecEvents == InitEvents /\ [][NextEvents]_vars

(* ------------------------------------------------------------------ *)
(* Datasource.prototype.processRequest on the 'cars' datasource         *)
(* ------------------------------------------------------------------ *)

\* _.extend(a, b): the fields of b over those of a
extend(a, b) == [f \in Fields |-> IF b[f] # "" THEN b[f] ELSE a[f]]

\* req.params[key], "" for undefined
get(params, key) == IF key \in DOMAIN params THEN params[key] ELSE ""

\* the property key an object is turned into when it is used as one
propertyKey(obj) == "[object Object]"

\* the page's name is contained in the datasource key, or the page passes
\* filters
passes(o) == o.page.name = "cars" \/ o.page.passFilters

\* this.requestParams.find(obj => obj.queryParam === 'page' && obj.param):
\* the index of the entry, 0 when there is none
requestParamsPage(rps) ==
  LET is == {i \in DOMAIN rps : rps[i].queryParam = "page" /\ rps[i].param # ""}
  IN IF is = {} THEN 0 ELSE CHOOSE i \in is : \A j \in is : i <= j

\* query.page || (requestParamsPage && req.params[requestParamsPage]) ||
\* req.params.page || 1
pageParam(query, params, rps) ==
  LET i     == requestParamsPage(rps)
      alias == IF i # 0 THEN get(params, propertyKey(rps[i])) ELSE ""
  IN IF query.page # "" THEN query.page
     ELSE IF alias # "" THEN alias
     ELSE IF get(params, "page") # "" THEN get(params, "page")
     ELSE "1"

\* datasourceParams.filter after the query string was read: originalFilter
\* itself, extended by the query's filter on a page that passes
queryFilter(o, query) ==
  IF passes(o) THEN extend(o.originalFilter, query.filter) ELSE o.originalFilter

RECURSIVE applyRequestParams(_, _, _)
\* this.requestParams.forEach: a param the request has is encoded and written
\* to its field, the field of one it has not is deleted from the filter
applyRequestParams(filter, rps, params) ==
  IF rps = <<>> THEN filter
  ELSE LET obj == Head(rps)
           v   == get(params, obj.param)
           f1  == IF obj.field \in Fields /\ v # ""
                  THEN [filter EXCEPT ![obj.field] = encodeURIComponent(v)]
                  ELSE IF obj.field \in Fields
                       THEN [filter EXCEPT ![obj.field] = ""]
                       ELSE filter
       IN applyRequestParams(f1, Tail(rps), params)

\* the datasourceParams handed to this.provider.processRequest: the page on
\* a paginated datasource of a page that passes, else the page of the
\* schema; the filter after the query string, the requestParams (on a copy)
\* and the filterEventResult
datasourceParams(o, params, query) ==
  [ page   |-> IF passes(o) /\ o.schema.paginate
               THEN pageParam(query, params, o.requestParams)
               ELSE o.schema.page,
    filter |-> extend(applyRequestParams(queryFilter(o, query),
                                         o.requestParams, params),
                      o.schema.filterEventResult) ]

\* processRequest on the object: originalFilter is the filter the query's
\* filter was merged into, and the provider is handed the datasourceParams
processCarsRequest(o, params, query) ==
  LET dp == datasourceParams(o, params, query)
  IN [o EXCEPT !.originalFilter = queryFilter(o, query),
               !.handed = [called |-> TRUE, params |-> params, query |-> query,
                           event |-> o.schema.filterEventResult,
                           filter |-> dp.filter, page |-> dp.page]]

\* the routes of the page: /cars/:make/:model, /cars/:p, /cars/page/:page
CarsRoutes ==
  << <<S("cars"), R("make"), R("model")>>,
     <<S("cars"), R("p")>>,
     <<S("cars"), S("page"), R("page")>> >>

CarsPaths ==
  { <<"cars", "honda", "civic">>, <<"cars", "3">>, <<"cars", "page", "4">> }

CarsQueries ==
  { Query(pg, f) : pg \in {"", "2"}, f \in {NoFilter, filterOf("", "", "red")} }

InitCars ==
  /\ paths = use(use(use(<<>>, CarsRoutes[1], CtlHandler, 1),
                     CarsRoutes[2], CtlHandler, 2),
                 CarsRoutes[3], CtlHandler, 3)
  /\ all = <<>>
  /\ errors = <<DefaultError>>
  /\ regSeq = Len(CarsRoutes)
  /\ req = idleReq
  /\ page = emptyPage
  /\ ctl = idleCtl
  /\ datasources = loaded
  /\ cars \in CarsObjects
  /\ dsCache = idleCache
  /\ components = noComponents
  /\ verb = idleVerb

\* a request for the page reaches processRequest of the 'cars' datasource
CarsRequest(path, query) ==
  /\ req' = listener(path, paths, all, errors)
  /\ cars' = processCarsRequest(cars, req'.params, query)
  /\ UNCHANGED <<paths, all, errors, regSeq, page, ctl, datasources, server>>

\* the filter event of a request called back with a filter
CarsFilterEvent(f) ==
  /\ cars' = [cars EXCEPT !.schema.filterEventResult = f]
  /\ UNCHANGED <<paths, all, errors, regSeq, req, page, ctl, datasources, server>>

NextCars ==
  \/ \E path \in CarsPaths, query \in CarsQueries : CarsRequest(path, query)
  \/ \E f \in {filterOf("", "", "blue"), filterOf("kia", "", "")} : CarsFilterEvent(f)

SpecCars == InitCars /\ [][NextCars]_vars

(* ------------------------------------------------------------------ *)
(* DatasourceCache                                                      *)
(* ------------------------------------------------------------------ *)

\* crypto.createHash('sha1').update(x).digest('hex'), taken as injective
sha1(x) == <<"sha1", x>>

\* the filename made of the hash of the name alone
getFilenameNameOnly(ds) == <<sha1(ds.name)>>

\* getFilename: the hash of the name, '_', the hash of provider.cacheKey if
\* there is one and of provider.endpoint otherwise
getFilename(ds) ==
  <<sha1(ds.name), "_",
    IF ds.cacheKey # "" THEN sha1(ds.cacheKey) ELSE sha1(ds.endpoint)>>

\* _.extend(this.cacheOptions, options): the stores the block has replace
\* those of cacheOptions
extendOptions(co, block) ==
  [ directory |-> IF block.directory.has THEN block.directory ELSE co.directory,
    redis     |-> IF block.redis.has THEN block.redis ELSE co.redis ]

\* getOptions: cacheOptions extended in place by the caching block of the
\* datasource; a directory without path is replaced by one that has the
\* configured path only
getOptions(co, ds) ==
  LET o == extendOptions(co, ds.caching)
  IN IF ~o.directory.has \/ o.directory.path = ""
     THEN [o EXCEPT !.directory = Store(TRUE, "undef", ConfigPath)]
     ELSE o

\* cachingEnabled: this.enabled, no cache=false in the endpoint, not a static
\* source, not in debug mode, and a store enabled in the options
cachingEnabled(c, ds) ==
  LET options == getOptions(c.cacheOptions, ds)
  IN /\ c.enabled
     /\ ~ds.cacheFalse
     /\ ds.type # "static"
     /\ ~c.config.debug
     /\ options.directory.enabled = "true" \/ options.redis.enabled = "true"

\* a call of cachingEnabled, getFromCache or cacheResponse: the options are
\* computed on cacheOptions itself, the filename when caching is enabled
cacheCall(c, op, ds) ==
  LET on == cachingEnabled(c, ds)
  IN [c EXCEPT !.cacheOptions = getOptions(c.cacheOptions, ds),
               !.prev = c.last,
               !.last = [op |-> op, ds |-> ds, enabled |-> on,
                         filename |-> IF on /\ op # "cachingEnabled"
                                      THEN getFilename(ds) ELSE <<>>]]

InitCache ==
  /\ paths = <<>>
  /\ all = <<>>
  /\ errors = <<DefaultError>>
  /\ regSeq = 0
  /\ req = idleReq
  /\ page = emptyPage
  /\ ctl = idleCtl
  /\ datasources = loaded
  /\ cars = idleCars
  /\ dsCache \in {newCache(cfg) : cfg \in CacheConfigs}
  /\ components = noComponents
  /\ verb = idleVerb

CachingEnabled(ds) ==
  /\ dsCache' = cacheCall(dsCache, "cachingEnabled", ds)
  /\ UNCHANGED <<paths, all, errors, regSeq, req, page, ctl, datasources, cars,
                 components, verb>>

GetFromCache(ds) ==
  /\ dsCache' = cacheCall(dsCache, "getFromCache", ds)
  /\ UNCHANGED <<paths, all, errors, regSeq, req, page, ctl, datasources, cars,
                 components, verb>>

CacheResponse(ds) ==
  /\ dsCache' = cacheCall(dsCache, "cacheResponse", ds)
  /\ UNCHANGED <<paths, all, errors, regSeq, req, page, ctl, datasources, cars,
                 components, verb>>

NextCache ==
  \/ \E ds \in CacheSources : CachingEnabled(ds)
  \/ \E ds \in CacheSources : GetFromCache(ds)
  \/ \E ds \in CacheSources : CacheResponse(ds)

SpecCache == InitCache /\ [][NextCache]_vars

(* ------------------------------------------------------------------ *)
(* Server: addComponent / removeComponent                               *)
(* ------------------------------------------------------------------ *)

\* route.path of the pages: '/index' and '/a'
PageRoutes == {<<S("index")>>, <<S("a")>>}

\* options.routes of a page
RouteLists == {<<<<S("index")>>>>, <<<<S("a")>>>>, <<<<S("index")>>, <<S("a")>>>>}

\* the path a route is registered under: '/' for '/index'
usePath(route) == IF route = <<S("index")>> THEN <<>> ELSE route

\* the request path a page route answers
urlOf(route) == [i \in DOMAIN usePath(route) |-> usePath(route)[i].name]

\* removeComponent(route): app.unuse(route), delete components[route]
removeComponent(st, route) ==
  [paths |-> unuse(st.paths, route),
   components |-> [st.components EXCEPT ![route] = 0]]

RECURSIVE removeEach(_, _)
\* _.each(options.routes, route => removeComponent(route.path))
removeEach(st, routes) ==
  IF routes = <<>> THEN st
  ELSE removeEach(removeComponent(st, Head(routes)), Tail(routes))

RECURSIVE addEach(_, _, _, _)
\* _.each(options.routes, ...): a route that has a component is left alone,
\* the others are recorded and registered with a handler of the component
addEach(st, routes, component, seq) ==
  IF routes = <<>> THEN st
  ELSE LET route == Head(routes)
       IN addEach(IF st.components[route] # 0 THEN st
                  ELSE [paths |-> use(st.paths, usePath(route), component, seq),
                        components |-> [st.components EXCEPT ![route] = component]],
                  Tail(routes), component, seq)

\* Server.prototype.addComponent(options, reload)
addComponent(st, routes, component, seq, reload) ==
  addEach(IF reload THEN removeEach(st, routes) ELSE st, routes, component, seq)

\* a page is loaded or reloaded: its component is the k-th one made
AddComponent(routes, reload) ==
  /\ regSeq < MaxReg
  /\ regSeq' = regSeq + 1
  /\ LET st == addComponent([paths |-> paths, components |-> components],
                            routes, routeHandler(regSeq + 1), regSeq + 1, reload)
     IN paths' = st.paths /\ components' = st.components
  /\ UNCHANGED <<all, errors, req, page, ctl, datasources, cars, dsCache, verb>>

RemoveComponent(route) ==
  /\ LET st == removeComponent([paths |-> paths, components |-> components], route)
     IN paths' = st.paths /\ components' = st.components
  /\ UNCHANGED <<all, errors, regSeq, req, page, ctl, datasources, cars, dsCache, verb>>

NextComponents ==
  \/ \E routes \in RouteLists, reload \in BOOLEAN : AddComponent(routes, reload)
  \/ \E route \in PageRoutes : RemoveComponent(route)
  \/ \E route \in PageRoutes : Dispatch(urlOf(route))
  \/ HandlerNext(NoErr)
  \/ HandlerEnd

SpecComponents == Init /\ [][NextComponents]_vars

(* ------------------------------------------------------------------ *)
(* Server: the handlers made by the verb methods                        *)
(* ------------------------------------------------------------------ *)

\* the verb of the method the handler was made by, and the methods of the
\* requests
Verb == "get"

Methods == {"get", "post"}

\* an entry of args: a callback given at registration, or the next of the
\* request that pushed it
Cb(n) == [kind |-> "cb", id |-> n]

NextOf(r) == [kind |-> "next", id |-> r]

\* the callbacks a verb method is called with
CallbackLists == {<<Cb(1)>>, <<Cb(1), Cb(2)>>}

\* a call made while request r is handled: of a callback or of the next of
\* a request, with nothing, an error or the req object as first argument
call(r, entry, arg) == [req |-> r, kind |-> entry.kind, id |-> entry.id, arg |-> arg]

\* args[i](req, res, doCallbacks(++i)): the entry is called with req as its
\* first argument; only a callback is handed a continuation it will call
invoke(v, r, i) ==
  [v EXCEPT !.log = Append(@, call(r, v.args[i], "req")),
            !.requests[r].pos = IF v.args[i].kind = "cb" THEN i + 1 ELSE 0]

\* handler(req, res, next): next() for another method, without return; then
\* next is pushed on args and doCallbacks(0)() calls args[0]
handler(v, method) ==
  LET r  == Len(v.requests) + 1
      v1 == [v EXCEPT !.requests = Append(@, [method |-> method, pos |-> 0]),
                      !.log = IF method # Verb
                              THEN Append(@, call(r, NextOf(r), "none"))
                              ELSE @]
      v2 == [v1 EXCEPT !.args = Append(@, NextOf(r))]
  IN invoke(v2, r, 1)

\* doCallbacks(i)(err), called by the callback it was handed to: an error
\* goes to the request's next, else args[i] is called
doCallbacks(v, r, err) ==
  IF err
  THEN [v EXCEPT !.log = Append(@, call(r, NextOf(r), "err")),
                 !.requests[r].pos = 0]
  ELSE invoke(v, r, v.requests[r].pos)

\* app.get(cb, ...): the handler is made and registered
Register(cbs) ==
  /\ verb.args = <<>>
  /\ verb' = [verb EXCEPT !.args = cbs]
  /\ UNCHANGED <<paths, all, errors, regSeq, req, page, ctl, datasources, cars,
                 dsCache, components>>

\* the listener calls the handler for a request
VerbRequest(method) ==
  /\ verb.args # <<>>
  /\ Len(verb.requests) < MaxRequests
  /\ verb' = handler(verb, method)
  /\ UNCHANGED <<paths, all, errors, regSeq, req, page, ctl, datasources, cars,
                 dsCache, components>>

\* a callback calls the continuation it was handed
CallbackNext(r, err) ==
  /\ r \in DOMAIN verb.requests
  /\ verb.requests[r].pos > 0
  /\ verb' = doCallbacks(verb, r, err)
  /\ UNCHANGED <<paths, all, errors, regSeq, req, page, ctl, datasources, cars,
                 dsCache, components>>

\* a callback sends the response and calls nothing
CallbackEnds(r) ==
  /\ r \in DOMAIN verb.requests
  /\ verb.requests[r].pos > 0
  /\ verb' = [verb EXCEPT !.requests[r].pos = 0]
  /\ UNCHANGED <<paths, all, errors, regSeq, req, page, ctl, datasources, cars,
                 dsCache, components>>

NextVerb ==
  \/ \E cbs \in CallbackLists : Register(cbs)
  \/ \E method \in Methods : VerbRequest(method)
  \/ \E r \in 1..MaxRequests, err \in BOOLEAN : CallbackNext(r, err)
  \/ \E r \in 1..MaxRequests : CallbackEnds(r)

SpecVerb == Init /\ [][NextVerb]_vars

(* ------------------------------------------------------------------ *)
(* Properties of the controller pipeline                                *)
(* ------------------------------------------------------------------ *)

keysOf(ds) == [i \in DOMAIN ds |-> ds[i].key]

isPrefix(a, b) == Len(a) <= Len(b) /\ \A i \in DOMAIN a : a[i] = b[i]

\* C6: the response of a request is finalized exactly once (res.end is not
\* invoked a second time) and the completion continuation of loadData is
\* invoked at most once
C6_FinalizedOnce ==
  /\ req.ends <= 1
  /\ ctl.doneCalls <= 1

\* no fetch before every preload event has completed
FetchAfterPreload ==
  (ctl.startedPrim # <<>> \/ ctl.chStarted # {}) =>
     ctl.preDone = Len(attachEvents(page))

\* no chained fetch before every primary fetch has completed
ChainedAfterPrimary ==
  ctl.chStarted # {} =>
     /\ ctl.completedPrim = keysOf(primaryDatasources(page))
     /\ ctl.inflight = {}

\* no postload event before every chained fetch has resolved
PostloadAfterChained ==
  ctl.postStarted > 0 =>
     /\ ctl.chInflight = {}
     /\ ctl.idx = Len(chainedDatasources(page))
     /\ ctl.inflight = {}

\* C7 as stated: the stages run in the order preload, primary, chained,
\* postload, gating, render; in particular a page is rendered only after
\* every chained fetch has resolved and every postload event has completed
C7_StagesInOrder ==
  /\ FetchAfterPreload
  /\ ChainedAfterPrimary
  /\ PostloadAfterChained
  /\ ctl.renderStarted =>
        /\ ctl.postDone = Len(page.events)
        /\ ctl.idx = Len(chainedDatasources(page))

\* C7 amended: the fetch and event stages run in the fixed order, and when
\* loadData completes through its final stage every postload event has
\* completed; a completion invoked before the final stage (a primary fetch
\* handing back a raw response, an error) gates and renders without them
C7_StagesInOrderUntilFinal ==
  /\ FetchAfterPreload
  /\ ChainedAfterPrimary
  /\ PostloadAfterChained
  /\ ctl.stage = "final" =>
        /\ ctl.preDone = Len(attachEvents(page))
        /\ ctl.postDone = Len(page.events)
        /\ ctl.chInflight = {}
        /\ ctl.completedPrim = keysOf(primaryDatasources(page))
  /\ (ctl.doneCalls > 0 /\ ~ctl.gatedEarly) => ctl.stage = "final"

\* every stage ran and the page was rendered
C7_Witness ==
  /\ ctl.stage = "final"
  /\ ctl.preDone = 2
  /\ ctl.completedPrim = <<"A">>
  /\ ctl.chStarted = {"X", "Y"}
  /\ ctl.postDone = 1
  /\ ctl.renderStarted
  /\ ~ctl.gatedEarly

\* C8: primary datasources are fetched one at a time in registration order:
\* at most one fetch is in flight and they complete in that order
C8_PrimaryOneAtATime ==
  /\ Cardinality(ctl.inflight) <= 1
  /\ Cardinality(ctl.workers) <= 1
  /\ isPrefix(ctl.startedPrim, keysOf(primaryDatasources(page)))
  /\ isPrefix(ctl.completedPrim, keysOf(primaryDatasources(page)))
  /\ Len(ctl.startedPrim) <= Len(ctl.completedPrim) + 1

\* A, B and C have completed, in that order
C8_Witness == ctl.completedPrim = <<"A", "B", "C">>

\* C9: after a primary fetch called back with an error no further primary
\* datasource is fetched, no chained fetch is started and no postload event
\* is run
C9_PrimaryErrorAborts ==
  [][ ctl'.primErr # NoErr =>
        /\ ctl'.startedPrim = ctl.startedPrim
        /\ ctl'.completedPrim = ctl.completedPrim
        /\ ctl'.chStarted = ctl.chStarted
        /\ ctl'.postStarted = ctl.postStarted
        /\ ctl'.stage = ctl.stage
     ]_vars

\* the first of three primary fetches failed on a page with postload events
C9_Witness ==
  /\ ctl.primErr # NoErr
  /\ Len(ctl.queue) = 2
  /\ page.events # <<>>
  /\ ctl.doneCalls = 1

chainedRan == ctl.stage \in {"chained", "postload", "final"}

chainedKeys == {chainedDatasources(page)[i].key : i \in DOMAIN chainedDatasources(page)}

\* the chained datasources whose parent key is in the working data set
eligible ==
  {chainedDatasources(page)[i].key : i \in
     {j \in DOMAIN chainedDatasources(page) :
        ctl.data[chainedDatasources(page)[j].chained] # "none"}}

C13_FailedExtractionError ==
  \A i \in DOMAIN chainedDatasources(page) :
    LET d == chainedDatasources(page)[i]
    IN (d.key \in ctl.chSeen /\ ctl.data[d.chained] # "none"
          /\ depth(ctl.data[d.chained]) < Len(ParamPath)) =>
         /\ d.key \notin ctl.chStarted
         /\ ctl.chParam[d.key] \notin {"", "'undefined'"}
         /\ \E j \in DOMAIN ctl.chErrs : ctl.chErrs[j].key = d.key

\* C14: an error handed back by a chained fetch is only logged: the callback
\* does what it does without the error, nothing reaches the error-handler
\* chain, nothing is thrown, the data of the other datasources stays, and
\* when it is the last callback of the stage the postload events follow
C14_ChainedErrorSwallowed ==
  [][ \A k \in DsKeys, e \in Errs, v \in Results :
        ChainedCallback(k, e, v) =>
          /\ req' = chainedLoaded(cur, k, NoErr, v).r
          /\ ctl' = [chainedLoaded(cur, k, NoErr, v).c
                       EXCEPT !.chLogged = @ \cup {k}]
          /\ req'.errLog = req.errLog
          /\ ~req'.crashed
          /\ \A j \in DsKeys \ {k} : ctl'.data[j] = ctl.data[j]
          /\ ctl'.idx = Len(chainedDatasources(page)) =>
                /\ ctl'.chDone = ctl.chDone + 1
                /\ ctl'.stage \in {"postload", "final"}
                /\ ctl'.postStarted = Len(page.events) \/ ctl'.ev = 1
     ]_vars

\* the fetch of X handed back an error, that of Y data; the postload event
\* ran and the page was rendered
C14_Witness ==
  /\ ctl.chLogged = {"X"}
  /\ ctl.data["X"] = "none"
  /\ ctl.data["Y"] = "full"
  /\ ctl.postDone = 1
  /\ ctl.renderStarted
  /\ req.errLog = <<>>

(* ------------------------------------------------------------------ *)
(* Properties of the gating check                                       *)
(* ------------------------------------------------------------------ *)

\* C15: when a required key is absent from the working data set or has no
\* results as loadData completes, the request goes to the not-found
\* terminal: nothing is thrown, no error handler is run, the status is 404
C15_RequiredMissingIsNotFound ==
  (ctl.doneCalls > 0
     /\ \E k \in page.requiredDatasources : ctl.data[k] \in {"none", "empty"}) =>
       /\ ~req.crashed
       /\ req.errLog = <<>>
       /\ req.statusCode = 404
       /\ req.stack[req.started[Len(req.started)]].kind = "nf"

\* C16: requiredDataPresent(data) is true exactly when every required key is
\* in data with a results list that is not empty, and with no required
\* datasources it is true whatever it is given
C16_RequiredDataPresent ==
  /\ requiredDataPresent(ctl, "data") <=>
        \A k \in page.requiredDatasources :
           ctl.data[k] \notin {"none", "plain", "empty"}
  /\ page.requiredDatasources = {} =>
        \A arg \in {"data", "result", "undefined"} : requiredDataPresent(ctl, arg)
  /\ (ctl.stage = "final" /\ ctl.doneCalls = 1) =>
        (ctl.gate = "pass" <=> \A k \in page.requiredDatasources :
                                 ctl.data[k] \notin {"none", "plain", "empty"})

\* the required key is in the data without a results list: the check failed
\* at the end of loadData and the request went to the not-found terminal
C16_Witness ==
  /\ page.requiredDatasources = {"A"}
  /\ ctl.data["A"] = "plain"
  /\ ctl.stage = "final"
  /\ ctl.gate = "fail"
  /\ req.statusCode = 404

(* ------------------------------------------------------------------ *)
(* Properties of the Datasource objects                                 *)
(* ------------------------------------------------------------------ *)

\* C17: processing requests leaves the Datasource objects as they were at
\* load: originalFilter, the datasource block of the schema, the source and
\* the requestParams
C17_DatasourcesNotMutated == datasources = loaded

(* ------------------------------------------------------------------ *)
(* Properties of the events                                             *)
(* ------------------------------------------------------------------ *)

\* C24: the events of a stage run one at a time, each started only after
\* the one before it called back: the global events, then the page's preload
\* events, then (in the postload stage) the page's events, in declared order
C24_EventsSequential ==
  LET declared == page.globalEvents \o page.preloadEvents \o page.events
      names    == [i \in DOMAIN ctl.evStarted |-> ctl.evStarted[i].name]
  IN /\ isPrefix(names, declared)
     /\ Len(names) <= ctl.preDone + ctl.postDone + 1
     /\ ctl.ev > 0 => Len(names) = ctl.preDone + ctl.postDone + 1
     /\ Len(names) <= Len(page.globalEvents \o page.preloadEvents)
          \/ ctl.preDone = Len(page.globalEvents \o page.preloadEvents)

\* the global event and the page's preload event have called back and the
\* postload event is running
C24_Witness ==
  /\ Len(ctl.evStarted) = 3
  /\ ctl.evStarted[1].name = "g"
  /\ ctl.evStarted[2].name = "p"
  /\ ctl.evStarted[3].name = "e"
  /\ ctl.preDone = 2
  /\ ctl.ev = 1
  /\ ctl.stage = "postload"

\* C25: once the result of an event carried the sentinel, every later event
\* is given the result in place of the data set, and the final callback
\* hands the result to gating and rendering
C25_ReplacedDataUsed ==
  ctl.replacedAt > 0 =>
    /\ \A i \in DOMAIN ctl.evStarted :
         i > ctl.replacedAt => ctl.evStarted[i].data = "result"
    /\ ctl.finalData # "unset" => ctl.finalData = "result"

(* ------------------------------------------------------------------ *)
(* Properties of the fetches                                            *)
(* ------------------------------------------------------------------ *)

\* the datasource of the page with this key
dsOf(k) == CHOOSE d \in {page.datasources[i] : i \in DOMAIN page.datasources} :
             d.key = k

\* C26: the fetch of a primary datasource with a filter event is started
\* after the filter event called back, and the filter its provider is handed
\* holds the filter the event of this request produced
C26_FilterEventBeforeFetch ==
  \A i \in DOMAIN ctl.startedPrim :
    LET k == ctl.startedPrim[i]
    IN dsOf(k).filterEvent # "" =>
         /\ ctl.handed[k] = "set"
         /\ k \in ctl.inflight => k \notin ctl.filterPending

\* C27: a datasource holds a provider only while its fetch has not called
\* back
C27_ProvidersReleased ==
  \A k \in ctl.providers : k \in ctl.inflight \cup ctl.chInflight

(* ------------------------------------------------------------------ *)
(* Properties of processRequest                                         *)
(* ------------------------------------------------------------------ *)

\* C28: on a page that passes, the page handed over for a paginated
\* datasource is the query's page if present, else the route param the
\* requestParams entry with queryParam 'page' names, else the route param
\* 'page', else 1
C28_PagePriority ==
  (cars.handed.called /\ cars.schema.paginate /\ passes(cars)) =>
    LET q       == cars.handed.query
        p       == cars.handed.params
        aliases == {i \in DOMAIN cars.requestParams :
                      cars.requestParams[i].queryParam = "page"}
        alias   == IF aliases = {} THEN ""
                   ELSE get(p, cars.requestParams[CHOOSE i \in aliases : TRUE].param)
    IN cars.handed.page =
         IF q.page # "" THEN q.page
         ELSE IF alias # "" THEN alias
         ELSE IF get(p, "page") # "" THEN get(p, "page")
         ELSE "1"

\* the filter the route params of a request give by the requestParams
fromParams(rps, params) ==
  [f \in Fields |->
     IF \E i \in DOMAIN rps : rps[i].field = f /\ get(params, rps[i].param) # ""
     THEN get(params, rps[CHOOSE i \in DOMAIN rps : rps[i].field = f].param)
     ELSE ""]

\* C29: for a request that has every route param the requestParams map to a
\* field, the filter handed over is the schema's original filter, then the
\* query's filter (on a page that passes only), then the requestParams, then
\* the filter-event result, the later source winning
C29_FilterOrder ==
  (/\ cars.handed.called
   /\ \A i \in DOMAIN cars.requestParams :
        cars.requestParams[i].field # "" =>
          cars.requestParams[i].param \in DOMAIN cars.handed.params) =>
    cars.handed.filter =
      extend(extend(extend(cars.schema.filter,
                           IF passes(cars) THEN cars.handed.query.filter
                           ELSE NoFilter),
                    fromParams(cars.requestParams, cars.handed.params)),
             cars.handed.event)

\* C30: for /cars/honda/civic?page=2 on a page that passes, whose paginated
\* 'cars' datasource has no filter of its own and no filter event, the router
\* sets make=honda and model=civic and the provider is handed the filter
\* {make: 'honda', model: 'civic'} and page 2
C30_CarsEndToEnd ==
  (/\ cars.handed.called
   /\ req.url = <<"cars", "honda", "civic">>
   /\ cars.handed.query = Query("2", NoFilter)
   /\ cars.handed.event = NoFilter
   /\ passes(cars)
   /\ cars.schema.paginate
   /\ cars.schema.filter = NoFilter) =>
    /\ req.params = ("make" :> "honda") @@ ("model" :> "civic")
    /\ cars.handed.params = req.params
    /\ cars.handed.filter = filterOf("honda", "civic", "")
    /\ cars.handed.page = "2"

(* ------------------------------------------------------------------ *)
(* Properties of the datasource cache                                   *)
(* ------------------------------------------------------------------ *)

\* what the key of a call is made from beside the name
keySource(ds) == IF ds.cacheKey # "" THEN ds.cacheKey ELSE ds.endpoint

\* C31: the cache keys of two calls are equal exactly when the names are
\* equal and the explicit cache keys are (for providers that supply one)
\* or the endpoints are (for providers that supply none); between a
\* provider with a cache key and one without, equal keys take equal names
\* and the cache key of the one equal to the endpoint of the other
C31_CacheKeyFunction ==
  (dsCache.last.filename # <<>> /\ dsCache.prev.filename # <<>>) =>
    LET a == dsCache.prev
        b == dsCache.last
    IN (a.filename = b.filename) =
         (a.ds.name = b.ds.name /\ keySource(a.ds) = keySource(b.ds))

\* a datasource was asked for twice with the same endpoint and got the same
\* key, through both operations
C31_Witness ==
  /\ dsCache.prev.op = "getFromCache"
  /\ dsCache.last.op = "cacheResponse"
  /\ dsCache.prev.filename # <<>>
  /\ dsCache.prev.filename = dsCache.last.filename
  /\ dsCache.prev.ds = Source("cars", "remote", "e1", FALSE, "", NoStore, NoStore)
  /\ dsCache.last.ds = dsCache.prev.ds

\* C32: for a datasource without a caching block of its own, cachingEnabled
\* is true exactly when a store is enabled in the configuration, the process
\* is not in debug mode, the query of the datasource's endpoint does not say
\* cache=false and the source is not static (the configuration read here
\* has no other caching flag)
C32_CachingEnabledIff ==
  (/\ dsCache.last.op # "none"
   /\ dsCache.last.ds.caching = [directory |-> NoStore, redis |-> NoStore]) =>
    dsCache.last.enabled =
      (/\ dsCache.config.directory.enabled = "true"
          \/ dsCache.config.redis.enabled = "true"
       /\ ~dsCache.config.debug
       /\ ~dsCache.last.ds.cacheFalse
       /\ dsCache.last.ds.type # "static")

\* C37: the result of cachingEnabled for a datasource is the one a cache
\* just made from the configuration gives, whatever calls came before
C37_OptionsLeaveConfig ==
  dsCache.last.op # "none" =>
    dsCache.last.enabled =
      cachingEnabled(newCache(dsCache.config), dsCache.last.ds)

(* ------------------------------------------------------------------ *)
(* Route lists: specificity, the config rule, removal                   *)
(* ------------------------------------------------------------------ *)

\* patterns with static segments behind a parameter and with 'config' as
\* first and as later segment
RoutePatterns ==
  { <<S("a"), R("x")>>,
    <<R("x"), S("b")>>,
    <<R("x"), O("y")>>,
    <<S("config")>>,
    <<S("a"), S("config")>> }

RoutePaths == { <<"a", "b">>, <<"config">>, <<"a", "config">> }

NextRoutes ==
  \/ \E p \in RoutePatterns : UseRoute(p)
  \/ \E p \in RoutePatterns : UnuseRoute(p)
  \/ \E path \in RoutePaths : Dispatch(path)
  \/ HandlerNext(NoErr)
  \/ HandlerEnd

SpecRoutes == Init /\ [][NextRoutes]_vars

\* number of static segments of a pattern
staticSegments(p) == Cardinality({i \in DOMAIN p : p[i].kind = "s"})

\* the pattern has a segment 'config', wherever it is
containsConfig(p) == \E i \in DOMAIN p : p[i].kind = "s" /\ p[i].name = "config"

\* C18: when two registered routes match the request path and one has more
\* static segments than the other, the handler dispatched is not that of
\* the route with fewer static segments (stated for routes outside the
\* config rule, which puts a route last whatever its segments)
C18_MoreStaticSegmentsFirst ==
  [][ (req.pending = "none" /\ req' # req) =>
        \A i, j \in matching(paths, req'.url) :
          (/\ ~containsConfig(paths[i].path)
           /\ staticSegments(paths[i].path) > staticSegments(paths[j].path)) =>
            \A k \in routeStages(req'.stack) :
               req'.stack[k].fn # paths[j].handler
     ]_vars

\* C19: every registered pattern containing '/config' has score -10 and is
\* behind every registered pattern that does not contain it
C19_ConfigSortsLast ==
  \A i \in DOMAIN paths :
    containsConfig(paths[i].path) =>
      /\ paths[i].order = -10
      /\ \A j \in DOMAIN paths : ~containsConfig(paths[j].path) => j < i

\* C20: whatever the route list, use(path, handler) followed by unuse(path)
\* gives back that list: the same entries with the same handlers in the same
\* order
C20_UseThenUnuseRestores ==
  \A p \in RoutePatterns :
    unuse(use(paths, p, routeHandler(regSeq + 1), regSeq + 1), p) = paths

\* C36: an error an event passes to its callback aborts the pipeline: the
\* step starts no event, no stage and no render, and calls done once, with
\* that error; after it nothing more is started. An event that cannot be
\* loaded or that throws is logged and the pipeline goes on as for an event
\* without result: the next event is started, or the next stage
C36_EventErrorAborts ==
  /\ [][\A err \in Errs :
          EventCallback(err, "none") =>
            /\ ctl'.evStarted = ctl.evStarted
            /\ ctl'.stage = ctl.stage
            /\ ctl'.ev = 0
            /\ ctl'.renders = ctl.renders
            /\ ctl'.doneCalls = ctl.doneCalls + 1
            /\ ctl'.doneErr = err
            /\ ctl'.evLog # ctl.evLog]_vars
  /\ [][(\E o \in {"missing", "throws"} : EventFails(o)) =>
            /\ ctl'.evLog # ctl.evLog
            /\ ctl'.evKeys = ctl.evKeys
            /\ ctl'.doneErr = NoErr
            /\ \/ Len(ctl'.evStarted) = Len(ctl.evStarted) + 1
               \/ ctl'.stage # ctl.stage]_vars
  /\ [](ctl.doneErr # NoErr =>
          /\ ctl.doneCalls = 1
          /\ ctl.ev = 0
          /\ ~ctl.renderStarted)

\* an event threw and was logged, the next event passed an error, and the
\* page has events that were never started
C36_Witness ==
  /\ ctl.doneErr # NoErr
  /\ ctl.stage = "preload"
  /\ Cardinality(ctl.evLog) = 2
  /\ page.events # <<>>
  /\ ctl.postStarted = 0

\* C34: when every event, fetch and render calls back, a request that
\* entered the pipeline has loadData call done in the end, whatever the
\* page's configuration
C34_LoadDataTerminates == (ctl.stage # "idle") ~> (ctl.doneCalls > 0)

\* C35: the cache flag and the filter value a chained fetch is made with
\* are those of its own request (cache=false in its query or not, the value
\* taken from its parent's result) and of the configured schema, whatever
\* requests the page served before
C35_ChainedOwnRequest ==
  \A k \in ctl.chStarted :
    /\ ctl.chCache[k] = IF ctl.query = "cache" THEN "false" ELSE loaded[k].schema.cache
    /\ ctl.chFilter[k] = ctl.chParam[k]

\* C38: the router holds at most one route for the path of each page route,
\* and a request for the path of a page that has a component is dispatched
\* to that component, the one added last; '/index' counts under '/'
C38_OneRoutePerPage ==
  \A route \in PageRoutes :
    /\ Cardinality({i \in DOMAIN paths : paths[i].path = usePath(route)}) <= 1
    /\ components[route] # 0 =>
         match(paths, urlOf(route)).handlers = <<components[route]>>

\* the calls made while request r was handled, in order
callsOf(r) == SelectSeq(verb.log, LAMBDA c : c.req = r)

\* C39: a verb-method handler calls its callbacks only for a request of its
\* verb; for a request of another method it calls that request's next once
\* and nothing else
C39_VerbOnly ==
  \A r \in DOMAIN verb.requests :
    verb.requests[r].method # Verb =>
      callsOf(r) = <<call(r, NextOf(r), "none")>>

\* the callbacks given at registration, then the next of request r
sequenceOf(r) ==
  SelectSeq(verb.args, LAMBDA e : e.kind = "cb") \o <<NextOf(r)>>

\* C40: for every request of its verb the handler calls the callbacks given
\* at registration, in order, and then that request's own next; the next of
\* one request is never called while another is handled
C40_SameSequence ==
  \A r \in DOMAIN verb.requests :
    verb.requests[r].method = Verb =>
      /\ Len(callsOf(r)) <= Len(sequenceOf(r))
      /\ \A i \in DOMAIN callsOf(r) :
           \/ /\ callsOf(r)[i].kind = sequenceOf(r)[i].kind
              /\ callsOf(r)[i].id = sequenceOf(r)[i].id
           \/ /\ callsOf(r)[i].kind = "next"
              /\ callsOf(r)[i].id = r
              /\ callsOf(r)[i].arg = "err"

\* C33: the score of a registered pattern (outside the config rule) is 5
\* times the number of static segments of the whole pattern, plus 2 times the
\* number of required parameters, plus the number of optional parameters
C33_ScoreFormula ==
  \A i \in DOMAIN paths :
    ~containsConfig(paths[i].path) =>
      paths[i].order =
        5 * staticSegments(paths[i].path)
        + 2 * Cardinality({k \in DOMAIN paths[i].path : paths[i].path[k].kind = "r"})
        + Cardinality({k \in DOMAIN paths[i].path : paths[i].path[k].kind = "o"})

====
